---- MODULE Spec2Model ----
(***************************************************************************)
(* A model of src/bhfl_gold.py: the monthly bank-statement batch job.      *)
(*                                                                         *)
(* Text values (str) are sequences of one-character strings.  A table cell *)
(* is a record [k, n, s]: k = "num" (a number n), k = "txt" (a text s) or  *)
(* k = "null" (NaN / None / NaT).  A table (DataFrame) is a record         *)
(* [cols, rows]: the set of column names and the sequence of rows; a row   *)
(* (Series) is a function from the column names to cells, and the empty    *)
(* dict is the function with no column.  Amounts and balances are integers *)
(* (the summary claims are about bounded integer amounts); a transaction   *)
(* date is the day number Num(d) or Null (NaT).                            *)
(***************************************************************************)
EXTENDS Integers, Sequences, FiniteSets, TLC

VARIABLES
    pc,          \* position of the running function
    ci,          \* process_month: index of cust_id in customers (loop variable)
    customers,   \* process_month: result of list_customer_folders
    cust_id,     \* process_month / password_for_customer: customer identifier
    keys,        \* assemble_customer_df: keys of the customer's partition
    ki,          \* assemble_customer_df: index of k in keys (loop variable)
    dfs,         \* assemble_customer_df: tables loaded so far
    loadlog,     \* outcome of each load_parquet_from_s3 call for this customer
    df,          \* the assembled table / df_txns
    first,       \* process_month: first row of df (or the empty dict)
    cust_meta,   \* process_month: metadata dict
    pdf_bytes,   \* result of build_statement_pdf_bytes
    pwd,         \* result of password_for_customer
    enc_bytes,   \* result of encrypt_pdf_bytes
    scratch,     \* local scratch files that exist on disk
    hist         \* per customer: what was attempted, what failed (the log lines)

vars == <<pc, ci, customers, cust_id, keys, ki, dfs, loadlog, df, first,
          cust_meta, pdf_bytes, pwd, enc_bytes, scratch, hist>>

----------------------------------------------------------------------------
(* Bounds of the model *)

\* customers enumerated for the period
NumCust == 2
\* objects under one customer's partition
MaxFiles == 2
\* rows of a transaction table handed to the renderer
MaxRows == 2
\* transaction dates are the days 1..MaxDate
MaxDate == 2
\* length of a phone text
MaxPhoneLen == 5
\* length of a customer identifier text
MaxIdLen == 5

----------------------------------------------------------------------------
(* Configuration, lines 21-55 *)

SEND_VIA_SES == TRUE
UPLOAD_TO_S3 == TRUE

COLS == [email |-> "email_id", phone |-> "phone_no",
         date |-> "transaction_date", amt |-> "amount",
         bal |-> "availablebalance"]

----------------------------------------------------------------------------
(* Values *)

Num(n) == [k |-> "num", n |-> n, s |-> <<>>]
Txt(s) == [k |-> "txt", n |-> 0, s |-> s]
Null == [k |-> "null", n |-> 0, s |-> <<>>]
DigitChars == <<"0", "1", "2", "3", "4", "5", "6", "7", "8", "9">>

IsDigit(c) == \E d \in 1..10 : DigitChars[d] = c

DigitVal(c) == (CHOOSE d \in 1..10 : DigitChars[d] = c) - 1

\* decimal digits of a natural number
RECURSIVE Digits(_)
Digits(n) ==
    IF n < 10 THEN <<DigitChars[n + 1]>>
    ELSE Digits(n \div 10) \o <<DigitChars[(n % 10) + 1]>>

\* value of a sequence of digits
RECURSIVE DigitsValue(_)
DigitsValue(s) ==
    IF s = <<>> THEN 0
    ELSE 10 * DigitsValue(SubSeq(s, 1, Len(s) - 1)) + DigitVal(s[Len(s)])

Abs(n) == IF n < 0 THEN -n ELSE n

\* a text that reads as an integer: an optional sign, then digits
ParsesAsNumber(s) ==
    LET body == IF s # <<>> /\ s[1] = "-" THEN Tail(s) ELSE s
    IN  body # <<>> /\ \A i \in 1..Len(body) : IsDigit(body[i])

ParseNumber(s) ==
    IF s[1] = "-" THEN -DigitsValue(Tail(s)) ELSE DigitsValue(s)

\* str(x)
Str(x) ==
    CASE x.k = "num" -> (IF x.n < 0 THEN <<"-">> ELSE <<>>) \o Digits(Abs(x.n))
      [] x.k = "txt" -> x.s
      [] OTHER -> <<"n", "a", "n">>

\* pd.notnull(x)
NotNull(x) == x.k # "null"

\* pd.to_numeric(x, errors="coerce").fillna(0) on one cell
ToNumericFillna0(x) ==
    CASE x.k = "num" -> x
      [] x.k = "txt" -> IF ParsesAsNumber(x.s) THEN Num(ParseNumber(x.s)) ELSE Num(0)
      [] OTHER -> Num(0)

\* p is the end of s
IsSuffix(p, s) ==
    /\ Len(p) <= Len(s)
    /\ \A i \in 1..Len(p) : p[i] = s[Len(s) - Len(p) + i]

----------------------------------------------------------------------------
(* format_currency, lines 119-123 *)

\* thousands separators: a comma before every group of three digits
RECURSIVE GroupThousands(_)
GroupThousands(ds) ==
    IF Len(ds) <= 3 THEN ds
    ELSE GroupThousands(SubSeq(ds, 1, Len(ds) - 3)) \o <<",">>
         \o SubSeq(ds, Len(ds) - 2, Len(ds))

\* f"{float(n):,.2f}" for an integer n
FormatFloat2(n) ==
    (IF n < 0 THEN <<"-">> ELSE <<>>) \o GroupThousands(Digits(Abs(n)))
    \o <<".", "0", "0">>

\* float(x) succeeds for a number, NaN, and a text that reads as a number
format_currency(x) ==
    CASE x.k = "num" -> FormatFloat2(x.n)
      [] x.k = "txt" -> IF ParsesAsNumber(x.s) THEN FormatFloat2(ParseNumber(x.s))
                        ELSE Str(x)
      [] OTHER -> <<"n", "a", "n">>

----------------------------------------------------------------------------
(* password_for_customer, lines 109-117 *)

Whitespace == {" ", "\t", "\n"}

RECURSIVE LStrip(_)
LStrip(s) == IF s # <<>> /\ s[1] \in Whitespace THEN LStrip(Tail(s)) ELSE s

RECURSIVE RStrip(_)
RStrip(s) ==
    IF s # <<>> /\ s[Len(s)] \in Whitespace THEN RStrip(SubSeq(s, 1, Len(s) - 1))
    ELSE s

\* no trimming
StripNothing(s) == s

\* str.strip()
Strip(s) == RStrip(LStrip(s))

\* s[-4:]
Last4(s) == SubSeq(s, IF Len(s) > 4 THEN Len(s) - 3 ELSE 1, Len(s))

\* the empty dict {}
EmptyDict == <<>>

\* row.get(c, default)
Get(row, c, default) == IF c \in DOMAIN row THEN row[c] ELSE default

\* the phone text the password is taken from: "" unless the column is in
\* the row and its value is not null
PhoneText(row) ==
    IF COLS.phone \in DOMAIN row /\ NotNull(row[COLS.phone])
    THEN Strip(Str(row[COLS.phone]))
    ELSE <<>>

password_for_customer(row, cust) ==
    LET phone == PhoneText(row)
    IN  IF phone # <<>> /\ Len(phone) >= 4 THEN Last4(phone) ELSE Last4(cust)

----------------------------------------------------------------------------
(* build_statement_pdf_bytes, lines 148-228 *)

\* pd.DataFrame(): no column, no row
EmptyDataFrame == [cols |-> {}, rows |-> <<>>]

\* df.empty: some axis has length zero
IsEmpty(t) == t.cols = {} \/ t.rows = <<>>

\* lines 177-180: the column c of the copy, if present, is replaced by its
\* numeric coercion with failures filled by zero
CoerceColumn(t, c) ==
    IF c \in t.cols
    THEN [t EXCEPT !.rows = [i \in 1..Len(t.rows) |->
                               [t.rows[i] EXCEPT ![c] = ToNumericFillna0(@)]]]
    ELSE t

\* the numbers of column c, after coercion
Column(t, c) == [i \in 1..Len(t.rows) |-> t.rows[i][c].n]

\* Series.sum()
RECURSIVE SumSeq(_)
SumSeq(xs) == IF xs = <<>> THEN 0 ELSE Head(xs) + SumSeq(Tail(xs))

IsCredit(a) == a >= 0
IsDebit(a) == a < 0

\* the debit total reported with its sign
ReportedDebitsSigned(total_debits) == total_debits

\* line 188: the debit total as reported
ReportedDebits(total_debits) == Abs(total_debits)

\* line 184: the balance of the last row of the table as it was handed in
ClosingBalance(t) ==
    IF Len(t.rows) > 0 /\ COLS.bal \in t.cols
    THEN t.rows[Len(t.rows)][COLS.bal].n
    ELSE 0

\* the sort key of sort_values(date): NaT sorts last
DateBefore(a, b) ==
    /\ NotNull(a[COLS.date])
    /\ (~NotNull(b[COLS.date]) \/ a[COLS.date].n < b[COLS.date].n)

\* line 202: the row orders sort_values(date) may produce; its default sort
\* is not stable, so rows of equal date come in either order
SortOrders(t) ==
    {p \in Permutations(1..Len(t.rows)) :
        \A i, j \in 1..Len(t.rows) :
            i < j => ~DateBefore(t.rows[p[j]], t.rows[p[i]])}

\* line 203: strftime of the day, "" for NaT
FormatDate(d) == IF NotNull(d) THEN Digits(d.n) ELSE <<>>

Header == << <<"D", "a", "t", "e">>, <<"A", "m", "o", "u", "n", "t">>,
             <<"B", "a", "l", "a", "n", "c", "e">> >>

\* lines 203-207: one itemized row
ItemRow(r) ==
    << FormatDate(r[COLS.date]),
       format_currency(Get(r, COLS.amt, Txt(<<>>))),
       format_currency(Get(r, COLS.bal, Txt(<<>>))) >>

\* The document: what was computed for the summary block and the itemized
\* table.  raised: sort_values raises KeyError when the table has no date
\* column, and no document is returned.
build_statement_pdf_bytes(df_txns, order) ==
    LET t == CoerceColumn(CoerceColumn(df_txns, COLS.amt), COLS.bal)
        total_credits ==
            IF COLS.amt \in t.cols
            THEN SumSeq(SelectSeq(Column(t, COLS.amt), IsCredit)) ELSE 0
        total_debits ==
            IF COLS.amt \in t.cols
            THEN SumSeq(SelectSeq(Column(t, COLS.amt), IsDebit)) ELSE 0
        closing_balance == ClosingBalance(t)
        raised == COLS.date \notin t.cols
    IN  [raised |-> raised,
         credits |-> total_credits,
         debits |-> ReportedDebits(total_debits),
         closing |-> closing_balance,
         summary_table |-> << format_currency(Num(total_credits)),
                              format_currency(Num(ReportedDebits(total_debits))),
                              format_currency(Num(closing_balance)) >>,
         order |-> IF raised THEN <<>> ELSE order,
         table_data |->
            IF raised THEN <<>>
            ELSE <<Header>> \o [i \in 1..Len(t.rows) |-> ItemRow(t.rows[order[i]])]]

\* the orders the renderer may use for a table: none when sorting raises
RenderOrders(t) == IF COLS.date \in t.cols THEN SortOrders(t) ELSE {<<>>}

NoDocument == [raised |-> FALSE, credits |-> 0, debits |-> 0, closing |-> 0,
               summary_table |-> <<>>, order |-> <<>>, table_data |-> <<>>]

----------------------------------------------------------------------------
(* Inputs *)

SeqsUpTo(S, n) == UNION {[1..k -> S] : k \in 0..n}

DateCells == {Null} \cup {Num(d) : d \in 1..MaxDate}
AmountCells == {Num(500), Num(-1200), Txt(<<"a", "b">>), Txt(<<"-", "7">>)}
BalanceCells == {Num(1300), Num(1500), Txt(<<"n", "a">>)}

CellsOf(c) ==
    CASE c = COLS.date -> DateCells
      [] c = COLS.amt -> AmountCells
      [] c = COLS.bal -> BalanceCells

\* the rows of a table whose columns are cols
RowsOver(cols) ==
    {r \in [cols -> DateCells \cup AmountCells \cup BalanceCells] :
        \A c \in cols : r[c] \in CellsOf(c)}

RenderColSets ==
    { {COLS.date, COLS.amt, COLS.bal}, {COLS.date, COLS.amt},
      {COLS.date, COLS.bal}, {COLS.amt, COLS.bal} }

PhoneChars == {" ", "7", "8"}
IdChars == {"C", "9"}

Phone1234567890 == <<"1", "2", "3", "4", "5", "6", "7", "8", "9", "0">>
CUST0099 == <<"C", "U", "S", "T", "0", "0", "9", "9">>

\* a first row that holds the phone text t
PhoneRow(t) == [c \in {COLS.phone} |-> Txt(t)]

\* a first row whose phone is stored as a number
NumberPhoneRow == [c \in {COLS.phone} |-> Num(98765)]

\* a first row whose phone is null
NullPhoneRow == [c \in {COLS.phone} |-> Null]

\* customer identifiers are folder names: not empty
PasswordCustIds == (SeqsUpTo(IdChars, MaxIdLen) \ {<<>>}) \cup {CUST0099}

----------------------------------------------------------------------------
(* The object store *)

UpperChars == <<"A", "B", "C", "D", "E", "F", "G", "H", "I", "J", "K", "L", "M",
                "N", "O", "P", "Q", "R", "S", "T", "U", "V", "W", "X", "Y", "Z">>
LowerChars == <<"a", "b", "c", "d", "e", "f", "g", "h", "i", "j", "k", "l", "m",
                "n", "o", "p", "q", "r", "s", "t", "u", "v", "w", "x", "y", "z">>

LowerChar(c) ==
    IF \E i \in 1..26 : UpperChars[i] = c
    THEN LowerChars[CHOOSE i \in 1..26 : UpperChars[i] = c]
    ELSE c

\* str.lower()
Lower(s) == [i \in 1..Len(s) |-> LowerChar(s[i])]

DotParquet == <<".", "p", "a", "r", "q", "u", "e", "t">>

\* the objects a customer's partition may hold, in the order the store
\* lists them
KeyA == <<"a", ".", "p", "a", "r", "q", "u", "e", "t">>
KeyB == <<"b", ".", "P", "A", "R", "Q", "U", "E", "T">>
KeyC == <<"c", ".", "c", "s", "v">>
KeyD == <<"d", ".", "p", "a", "r", "q", "u", "e", "t">>
Catalog == <<KeyA, KeyB, KeyC, KeyD>>

\* the column names as the files spell them
FileCols == {"Transaction_Date", "Amount", "AvailableBalance", "Email_Id",
             "Phone_No"}

\* c.lower() for a column name
LowerName(c) ==
    CASE c = "Transaction_Date" -> "transaction_date"
      [] c = "Amount" -> "amount"
      [] c = "AvailableBalance" -> "availablebalance"
      [] c = "Email_Id" -> "email_id"
      [] c = "Phone_No" -> "phone_no"
      [] OTHER -> c

RowA == [Transaction_Date |-> Num(2), Amount |-> Num(500),
         AvailableBalance |-> Num(1500),
         Email_Id |-> Txt(<<"a", "@", "b">>), Phone_No |-> Txt(Phone1234567890)]
RowB == [Transaction_Date |-> Txt(<<"1">>), Amount |-> Num(-1200),
         AvailableBalance |-> Num(1300),
         Email_Id |-> Txt(<<"a", "b">>), Phone_No |-> Null]

\* what pd.read_parquet gives for an object: KeyD is a file of zero rows
Contents(key) ==
    [cols |-> FileCols,
     rows |-> CASE key = KeyA -> <<RowA>>
                [] key = KeyB -> <<RowB>>
                [] OTHER -> <<>>]

\* the sub-listings of the catalog of at most MaxFiles objects, in
\* listing order
RECURSIVE Pick(_, _)
Pick(seq, idx) ==
    IF seq = <<>> THEN <<>>
    ELSE (IF Len(seq) \in idx THEN Pick(SubSeq(seq, 1, Len(seq) - 1), idx)
                                     \o <<seq[Len(seq)]>>
          ELSE Pick(SubSeq(seq, 1, Len(seq) - 1), idx))

Partitions ==
    {Pick(Catalog, idx) :
        idx \in {x \in SUBSET (1..Len(Catalog)) : Cardinality(x) <= MaxFiles}}

\* the common prefixes under the period, after the period prefix
CustIdMarker == <<"c", "u", "s", "t", "_", "i", "d", "=">>

CustomerName(i) == IF i = 2 THEN CUST0099 ELSE <<"C">> \o Digits(i)

CommonPrefixes ==
    [i \in 1..NumCust |-> CustIdMarker \o CustomerName(i) \o <<"/">>]
    \o << <<"l", "o", "g", "s", "/">> >>

----------------------------------------------------------------------------
(* list_customer_folders, lines 59-70 *)

\* the place of the first occurrence of m in p, 0 if there is none
IndexOf(p, m) ==
    LET hits == {i \in 1..(Len(p) + 1 - Len(m)) : SubSeq(p, i, i + Len(m) - 1) = m}
    IN  IF hits = {} THEN 0 ELSE CHOOSE i \in hits : \A j \in hits : i <= j

RECURSIVE RStripSlash(_)
RStripSlash(s) ==
    IF s # <<>> /\ s[Len(s)] = "/" THEN RStripSlash(SubSeq(s, 1, Len(s) - 1))
    ELSE s

\* p.split("cust_id=")[1].rstrip("/"), the marker occurring once
CustOfPrefix(p) ==
    RStripSlash(SubSeq(p, IndexOf(p, CustIdMarker) + Len(CustIdMarker), Len(p)))

list_customer_folders(prefixes) ==
    LET withCust == SelectSeq(prefixes, LAMBDA p : IndexOf(p, CustIdMarker) # 0)
    IN  [i \in 1..Len(withCust) |-> CustOfPrefix(withCust[i])]

----------------------------------------------------------------------------
(* list_parquet_keys_for_customer, lines 72-80 *)

IsParquetKey(key) == IsSuffix(DotParquet, Lower(key))

list_parquet_keys_for_customer(objects) == SelectSeq(objects, IsParquetKey)

----------------------------------------------------------------------------
(* load_parquet_from_s3, lines 82-87 *)

LoadOutcomes == {"ok", "download_failed", "parse_failed"}

\* One fetch: the scratch file is created; download_file or read_parquet
\* may raise, and then the unlink after the with block is not reached.
load_parquet_from_s3(key, outcome) ==
    [raised |-> outcome # "ok",
     df |-> IF outcome = "ok" THEN Contents(key) ELSE EmptyDataFrame,
     unlinked |-> outcome = "ok"]

----------------------------------------------------------------------------
(* assemble_customer_df, lines 89-107 *)

\* pd.concat(dfs, ignore_index=True): the union of the columns, the rows
\* one table after the other, a missing value filled with NaN
RECURSIVE ConcatRows(_, _)
ConcatRows(tables, cols) ==
    IF tables = <<>> THEN <<>>
    ELSE [i \in 1..Len(Head(tables).rows) |->
            [c \in cols |-> Get(Head(tables).rows[i], c, Null)]]
         \o ConcatRows(Tail(tables), cols)

Concat(tables) ==
    LET cols == UNION {tables[i].cols : i \in 1..Len(tables)}
    IN  [cols |-> cols, rows |-> ConcatRows(tables, cols)]

\* pd.to_datetime of one cell: a timestamp stays, a text of digits is read
\* (the dates of the store's files all parse)
ToDatetime(x) ==
    IF x.k = "txt" /\ ParsesAsNumber(x.s) THEN Num(ParseNumber(x.s)) ELSE x

\* lines 103-106 on one row: lower-case column names, the date parsed
NormalizeRow(r) ==
    [c \in {LowerName(d) : d \in DOMAIN r} |->
        LET v == r[CHOOSE d \in DOMAIN r : LowerName(d) = c]
        IN  IF c = COLS.date THEN ToDatetime(v) ELSE v]

\* lines 99-107
AssembleLoaded(tables) ==
    IF tables = <<>> THEN EmptyDataFrame
    ELSE LET t == Concat(tables)
         IN  [cols |-> {LowerName(c) : c \in t.cols},
              rows |-> [i \in 1..Len(t.rows) |-> NormalizeRow(t.rows[i])]]

----------------------------------------------------------------------------
(* State *)

NoMeta == [cust_id |-> <<>>, email |-> Txt(<<>>), phone |-> Txt(<<>>)]

\* every variable of process_month at rest
Rest ==
    /\ ci = 0
    /\ customers = <<>>
    /\ keys = <<>>
    /\ ki = 0
    /\ dfs = <<>>
    /\ loadlog = <<>>
    /\ cust_meta = NoMeta
    /\ enc_bytes = <<>>
    /\ scratch = {}
    /\ hist = <<>>

----------------------------------------------------------------------------
(* The renderer applied to every input table *)

\* the tables handed to the renderer: the column-less empty table, and the
\* tables of up to MaxRows rows over each column set
InitRender ==
    /\ pc = "render_input"
    /\ \/ df = EmptyDataFrame
       \/ \E cs \in RenderColSets, n \in 0..MaxRows :
             \E rs \in [1..n -> RowsOver(cs)] : df = [cols |-> cs, rows |-> rs]
    /\ cust_id = <<>>
    /\ first = EmptyDict
    /\ pdf_bytes = NoDocument
    /\ pwd = <<>>
    /\ Rest

RenderStatement ==
    /\ pc = "render_input"
    /\ \E order \in RenderOrders(df) :
          pdf_bytes' = build_statement_pdf_bytes(df, order)
    /\ pc' = "render_output"
    /\ UNCHANGED <<ci, customers, cust_id, keys, ki, dfs, loadlog, df, first,
                   cust_meta, pwd, enc_bytes, scratch, hist>>

NextRender == RenderStatement

SpecRender == InitRender /\ [][NextRender]_vars

----------------------------------------------------------------------------
(* The password rule applied to every first row and customer identifier *)

\* the first rows handed to password_for_customer: the empty dict, a row
\* with a null phone, a row with a phone text
InitPassword ==
    /\ pc = "password_input"
    /\ \/ first = EmptyDict
       \/ first = NullPhoneRow
       \/ first = PhoneRow(Phone1234567890)
       \/ first = NumberPhoneRow
       \/ \E n \in 0..MaxPhoneLen :
             \E t \in [1..n -> PhoneChars] : first = PhoneRow(t)
    /\ cust_id \in PasswordCustIds
    /\ df = EmptyDataFrame
    /\ pdf_bytes = NoDocument
    /\ pwd = <<>>
    /\ Rest

DerivePassword ==
    /\ pc = "password_input"
    /\ pwd' = password_for_customer(first, cust_id)
    /\ pc' = "password_output"
    /\ UNCHANGED <<ci, customers, cust_id, keys, ki, dfs, loadlog, df, first,
                   cust_meta, pdf_bytes, enc_bytes, scratch, hist>>

NextPassword == DerivePassword

SpecPassword == InitPassword /\ [][NextPassword]_vars

----------------------------------------------------------------------------
(* process_month, lines 270-345 *)

\* hist[c]: the steps attempted for customer c and those that raised, the
\* number of keys listed and of rows assembled (-1: not yet known) and the
\* email address of the metadata
NoHist == [attempted |-> {}, failed |-> {}, nkeys |-> -1, nrows |-> -1,
           email |-> Txt(<<>>)]

Attempt(step) == [hist EXCEPT ![ci].attempted = @ \cup {step}]
Fail(step) ==
    [hist EXCEPT ![ci].attempted = @ \cup {step}, ![ci].failed = @ \cup {step}]

Init ==
    /\ pc = "start"
    /\ cust_id = <<>>
    /\ df = EmptyDataFrame
    /\ first = EmptyDict
    /\ pdf_bytes = NoDocument
    /\ pwd = <<>>
    /\ Rest

\* the locals of one iteration, dead at the head of the loop
ClearLocals ==
    /\ keys' = <<>>
    /\ ki' = 0
    /\ dfs' = <<>>
    /\ loadlog' = <<>>
    /\ df' = EmptyDataFrame
    /\ first' = EmptyDict
    /\ cust_meta' = NoMeta
    /\ pdf_bytes' = NoDocument
    /\ pwd' = <<>>
    /\ enc_bytes' = <<>>

\* the for loop takes the next customer, or the run is done (line 345)
NextCustomer ==
    /\ ci' = ci + 1
    /\ IF ci + 1 <= Len(customers)
       THEN cust_id' = customers[ci + 1] /\ pc' = "list_keys"
       ELSE cust_id' = <<>> /\ pc' = "done"
    /\ ClearLocals

\* the exception leaves process_month
Propagate ==
    /\ pc' = "aborted"
    /\ UNCHANGED <<ci, customers, cust_id, keys, ki, dfs, loadlog, df, first,
                   cust_meta, pdf_bytes, pwd, enc_bytes, scratch>>

\* lines 275-287: no logo is configured; the customers are enumerated
ListCustomers ==
    /\ pc = "start"
    /\ customers' = list_customer_folders(CommonPrefixes)
    /\ hist' = [c \in 1..Len(customers') |-> NoHist]
    /\ ci' = 1
    /\ IF Len(customers') >= 1
       THEN cust_id' = customers'[1] /\ pc' = "list_keys"
       ELSE cust_id' = <<>> /\ pc' = "done"
    /\ UNCHANGED <<keys, ki, dfs, loadlog, df, first, cust_meta, pdf_bytes, pwd,
                   enc_bytes, scratch>>

\* lines 289, 90-92: the listing is outside every try; with no key the
\* empty table is returned
ListKeys ==
    /\ pc = "list_keys"
    /\ \E objects \in Partitions, outcome \in {"ok", "failed"} :
          IF outcome = "failed"
          THEN /\ hist' = Fail("list")
               /\ Propagate
          ELSE /\ keys' = list_parquet_keys_for_customer(objects)
               /\ IF keys' = <<>>
                  THEN /\ hist' = [Attempt("list") EXCEPT ![ci].nkeys = 0,
                                                          ![ci].nrows = 0]
                       /\ df' = EmptyDataFrame
                       /\ ki' = 0
                       /\ pc' = "check_empty"
                  ELSE /\ hist' = [Attempt("list") EXCEPT ![ci].nkeys = Len(keys')]
                       /\ df' = df
                       /\ ki' = 1
                       /\ pc' = "load"
               /\ UNCHANGED <<ci, customers, cust_id, dfs, loadlog, first,
                              cust_meta, pdf_bytes, pwd, enc_bytes, scratch>>

\* lines 94-98: one key of the loop; a raised fetch is caught and logged
LoadFile ==
    /\ pc = "load"
    /\ \E outcome \in LoadOutcomes :
          LET got == load_parquet_from_s3(keys[ki], outcome)
          IN  /\ dfs' = IF got.raised THEN dfs ELSE Append(dfs, got.df)
              /\ scratch' = IF got.unlinked THEN scratch
                            ELSE scratch \cup {<<ci, ki>>}
              /\ loadlog' = Append(loadlog, outcome)
    /\ IF ki < Len(keys)
       THEN ki' = ki + 1 /\ pc' = "load"
       ELSE ki' = ki /\ pc' = "assemble"
    /\ UNCHANGED <<ci, customers, cust_id, keys, df, first, cust_meta,
                   pdf_bytes, pwd, enc_bytes, hist>>

\* lines 99-107: the table is returned
Assemble ==
    /\ pc = "assemble"
    /\ df' = AssembleLoaded(dfs)
    /\ hist' = [hist EXCEPT ![ci].nrows = Len(df'.rows)]
    /\ pc' = "check_empty"
    /\ UNCHANGED <<ci, customers, cust_id, keys, ki, dfs, loadlog, first,
                   cust_meta, pdf_bytes, pwd, enc_bytes, scratch>>

\* an empty table is rendered like any other
CheckEmptyNoSkip ==
    /\ pc = "check_empty"
    /\ first' = IF Len(df.rows) > 0 THEN df.rows[1] ELSE EmptyDict
    /\ cust_meta' = [cust_id |-> cust_id,
                     email |-> Get(first', COLS.email, Txt(<<>>)),
                     phone |-> Get(first', COLS.phone, Txt(<<>>))]
    /\ hist' = [hist EXCEPT ![ci].email = cust_meta'.email]
    /\ pc' = "render"
    /\ UNCHANGED <<ci, customers, cust_id, keys, ki, dfs, loadlog, df,
                   pdf_bytes, pwd, enc_bytes, scratch>>

\* lines 290-303: an empty table skips the customer; otherwise the
\* metadata is read from the first row
CheckEmpty ==
    /\ pc = "check_empty"
    /\ IF IsEmpty(df)
       THEN /\ NextCustomer
            /\ UNCHANGED <<customers, scratch, hist>>
       ELSE /\ first' = IF Len(df.rows) > 0 THEN df.rows[1] ELSE EmptyDict
            /\ cust_meta' = [cust_id |-> cust_id,
                             email |-> Get(first', COLS.email, Txt(<<>>)),
                             phone |-> Get(first', COLS.phone, Txt(<<>>))]
            /\ hist' = [hist EXCEPT ![ci].email = cust_meta'.email]
            /\ pc' = "render"
            /\ UNCHANGED <<ci, customers, cust_id, keys, ki, dfs, loadlog, df,
                           pdf_bytes, pwd, enc_bytes, scratch>>

\* lines 305-310: a failure to build the document is caught and the
\* customer is left
Render ==
    /\ pc = "render"
    /\ \E outcome \in {"ok", "failed"}, order \in RenderOrders(df) :
          LET doc == build_statement_pdf_bytes(df, order)
          IN  IF outcome = "failed" \/ doc.raised
              THEN /\ hist' = Fail("render")
                   /\ NextCustomer
                   /\ UNCHANGED <<customers, scratch>>
              ELSE /\ hist' = Attempt("render")
                   /\ pdf_bytes' = doc
                   /\ pc' = "protect"
                   /\ UNCHANGED <<ci, customers, cust_id, keys, ki, dfs,
                                  loadlog, df, first, cust_meta, pwd,
                                  enc_bytes, scratch>>

\* encrypt_pdf_bytes, lines 230-239: the pages under the password
encrypt_pdf_bytes(doc, password) == [pages |-> doc, password |-> password]

\* lines 312-316: the password, then the encryption, which is outside every
\* try
Protect ==
    /\ pc = "protect"
    /\ \E outcome \in {"ok", "failed"} :
          IF outcome = "failed"
          THEN /\ hist' = Fail("encrypt")
               /\ pc' = "aborted"
               /\ pwd' = password_for_customer(first, cust_id)
               /\ UNCHANGED <<ci, customers, cust_id, keys, ki, dfs, loadlog,
                              df, first, cust_meta, pdf_bytes, enc_bytes,
                              scratch>>
          ELSE /\ hist' = Attempt("encrypt")
               /\ pwd' = password_for_customer(first, cust_id)
               /\ enc_bytes' = encrypt_pdf_bytes(pdf_bytes, pwd')
               /\ pc' = "upload"
               /\ UNCHANGED <<ci, customers, cust_id, keys, ki, dfs, loadlog,
                              df, first, cust_meta, pdf_bytes, scratch>>

\* a failed upload leaves process_month
UploadUncaught ==
    /\ pc = "upload"
    /\ \E outcome \in {"ok", "failed"} :
          /\ hist' = IF outcome = "failed" THEN Fail("upload")
                     ELSE Attempt("upload")
          /\ pc' = IF outcome = "failed" THEN "aborted" ELSE "email"
    /\ UNCHANGED <<ci, customers, cust_id, keys, ki, dfs, loadlog, df, first,
                   cust_meta, pdf_bytes, pwd, enc_bytes, scratch>>

\* lines 318-325: the upload, its failure caught and logged
Upload ==
    /\ pc = "upload"
    /\ IF UPLOAD_TO_S3
       THEN \E outcome \in {"ok", "failed"} :
              hist' = IF outcome = "failed" THEN Fail("upload")
                      ELSE Attempt("upload")
       ELSE hist' = hist
    /\ pc' = "email"
    /\ UNCHANGED <<ci, customers, cust_id, keys, ki, dfs, loadlog, df, first,
                   cust_meta, pdf_bytes, pwd, enc_bytes, scratch>>

\* bool(x)
Truthy(x) ==
    CASE x.k = "num" -> x.n # 0
      [] x.k = "txt" -> x.s # <<>>
      [] OTHER -> TRUE

\* "@" in str(x)
ContainsAt(x) == \E i \in 1..Len(Str(x)) : Str(x)[i] = "@"

\* lines 327-343: the email, its failure caught and logged; then the next
\* customer
Email ==
    /\ pc = "email"
    /\ IF SEND_VIA_SES /\ Truthy(cust_meta.email) /\ ContainsAt(cust_meta.email)
       THEN \E outcome \in {"ok", "failed"} :
              hist' = IF outcome = "failed" THEN Fail("email")
                      ELSE Attempt("email")
       ELSE hist' = hist
    /\ NextCustomer
    /\ UNCHANGED <<customers, scratch>>

Next ==
    \/ ListCustomers
    \/ ListKeys
    \/ LoadFile
    \/ Assemble
    \/ CheckEmpty
    \/ Render
    \/ Protect
    \/ Upload
    \/ Email

Spec == Init /\ [][Next]_vars

----------------------------------------------------------------------------
(* Properties of process_month, checked under Spec *)

Started(c) == "list" \in hist[c].attempted

AfterAssembly == {"render", "encrypt", "upload", "email"}

\* C1: no failure of a per-customer step aborts the run: when the run has
\* ended it has ended at "Done processing month", and every customer of
\* the enumeration was processed.
C1_NoFailureAbortsRun ==
    pc \in {"done", "aborted"} =>
        /\ pc = "done"
        /\ \A c \in 1..Len(customers) : Started(c)

\* C2: a customer with no matching file, or whose assembled table is empty,
\* gets no render, encryption, upload or email attempt, and the loop goes
\* on to the next customer.
C2_EmptyCustomerSkipped ==
    \A c \in 1..Len(customers) :
        (hist[c].nkeys = 0 \/ hist[c].nrows = 0) =>
            /\ hist[c].attempted \cap AfterAssembly = {}
            /\ ci > c \/ (ci = c /\ pc = "check_empty")

\* C2 witness: the first customer had no matching file, the second had
\* files but no row, and the run went on to its end
C2_Witness ==
    /\ pc = "done"
    /\ Len(customers) >= 2
    /\ hist[1].nkeys = 0
    /\ hist[2].nkeys > 0
    /\ hist[2].nrows = 0

\* the address holds an "@"
HasAtSign(x) == x.k = "txt" /\ \E i \in 1..Len(x.s) : x.s[i] = "@"

\* C3: a failed upload is caught at that step and the email is still
\* attempted when mail is enabled and the address holds an "@"; a failed
\* email does not stop the run either.
C3_UploadFailureKeepsEmail ==
    \A c \in 1..Len(customers) :
        /\ "upload" \in hist[c].attempted =>
              {"render", "encrypt"} \subseteq hist[c].attempted \ hist[c].failed
        /\ "upload" \in hist[c].failed =>
              /\ ~(pc = "aborted" /\ ci = c)
              /\ (ci > c /\ SEND_VIA_SES /\ HasAtSign(hist[c].email))
                    => "email" \in hist[c].attempted
        /\ "email" \in hist[c].failed => ci > c

\* C3 witness: for one customer the upload and then the email failed, and
\* the next customer was processed
C3_Witness ==
    \E c \in 1..Len(customers) :
        /\ {"upload", "email"} \subseteq hist[c].failed
        /\ c < Len(customers)
        /\ Started(c + 1)

\* the rows of the files that loaded, in listing order, as the assembled
\* table holds them
RECURSIVE LoadedRows(_, _)
LoadedRows(ks, log) ==
    IF ks = <<>> \/ log = <<>> THEN <<>>
    ELSE (IF Head(log) = "ok"
          THEN [i \in 1..Len(Contents(Head(ks)).rows) |->
                  NormalizeRow(Contents(Head(ks)).rows[i])]
          ELSE <<>>)
         \o LoadedRows(Tail(ks), Tail(log))

\* C8: a listing, download or parse failure is caught inside
\* assemble_customer_df, which returns the rows of exactly the files that
\* loaded, in listing order, and the empty table only when none loaded.
C8_FileFailureSkipsFileOnly ==
    /\ \A c \in 1..Len(customers) :
          "list" \in hist[c].failed => ~(pc = "aborted" /\ ci = c)
    /\ pc = "check_empty" =>
          /\ df.rows = LoadedRows(keys, loadlog)
          /\ df = EmptyDataFrame <=> (\A i \in 1..Len(loadlog) : loadlog[i] # "ok")

\* C9: no scratch file of a finished fetch is left on disk.
C9_NoScratchFileLeft == scratch = {}

----------------------------------------------------------------------------
(* Properties of the renderer, checked under SpecRender *)

\* what an amount or balance cell counts for: its number, zero if it does
\* not coerce
CellValue(x) ==
    IF x.k = "num" THEN x.n
    ELSE IF x.k = "txt" /\ ParsesAsNumber(x.s) THEN ParseNumber(x.s) ELSE 0

Coerces(x) == x.k = "num" \/ (x.k = "txt" /\ ParsesAsNumber(x.s))

\* the sum of all amounts of a table, row by row
RECURSIVE SumAmounts(_)
SumAmounts(rows) ==
    IF rows = <<>> THEN 0
    ELSE CellValue(Head(rows)[COLS.amt]) + SumAmounts(Tail(rows))

\* row i is the one row with the maximum transaction date
IsLatestRow(t, i) ==
    /\ \A j \in 1..Len(t.rows) : NotNull(t.rows[j][COLS.date])
    /\ \A j \in 1..Len(t.rows) :
          j # i => t.rows[j][COLS.date].n < t.rows[i][COLS.date].n

\* C4: the closing balance reported is the balance of the row with the
\* maximum transaction date, whatever the order of the rows in the table,
\* and zero for an empty table.
C4_ClosingBalanceIsLatest ==
    pc = "render_output" =>
        /\ df.rows = <<>> => pdf_bytes.closing = 0
        /\ \A i \in 1..Len(df.rows) :
              ({COLS.date, COLS.bal} \subseteq df.cols /\ IsLatestRow(df, i))
              => pdf_bytes.closing = CellValue(df.rows[i][COLS.bal])

\* C6: the reported credit and debit totals are not negative, and credits
\* minus debits is the sum of all amounts (an amount that does not coerce
\* counting as zero); the formatted totals carry no minus sign.
C6_SummaryTotals ==
    pc = "render_output" =>
        /\ pdf_bytes.credits >= 0
        /\ pdf_bytes.debits >= 0
        /\ pdf_bytes.credits - pdf_bytes.debits =
              (IF COLS.amt \in df.cols THEN SumAmounts(df.rows) ELSE 0)
        /\ Head(pdf_bytes.summary_table[1]) # "-"
        /\ Head(pdf_bytes.summary_table[2]) # "-"

\* C6 witness: a rendered table with a credit and a debit, one of them an
\* amount held as text
C6_Witness ==
    /\ pc = "render_output"
    /\ pdf_bytes.credits > 0
    /\ pdf_bytes.debits > 0
    /\ COLS.amt \in df.cols
    /\ \E i \in 1..Len(df.rows) : df.rows[i][COLS.amt].k = "txt"

\* C7: rendering a table of zero rows does not raise, its summary is all
\* zeros and its itemized table is the header row alone.
C7_EmptyTableRenders ==
    (pc = "render_output" /\ df.rows = <<>>) =>
        /\ ~pdf_bytes.raised
        /\ pdf_bytes.credits = 0
        /\ pdf_bytes.debits = 0
        /\ pdf_bytes.closing = 0
        /\ pdf_bytes.table_data = <<Header>>

\* what the claim says an itemized cell shows
ShownAs(x) == IF Coerces(x) THEN FormatFloat2(CellValue(x)) ELSE Str(x)

\* C10: an amount or balance that does not coerce is shown in its itemized
\* row as its original text, and one that coerces with thousands separators
\* and two decimals.
C10_UncoercibleShownAsText ==
    (pc = "render_output" /\ ~pdf_bytes.raised) =>
        \A i \in 1..Len(df.rows) :
            LET r == df.rows[pdf_bytes.order[i]]
                item == pdf_bytes.table_data[i + 1]
            IN  /\ COLS.amt \in df.cols => item[2] = ShownAs(r[COLS.amt])
                /\ COLS.bal \in df.cols => item[3] = ShownAs(r[COLS.bal])

----------------------------------------------------------------------------
(* Properties of the password rule, checked under SpecPassword *)

\* t is s without its leading and trailing whitespace
IsTrimOf(t, s) ==
    /\ t = <<>> \/ (t[1] \notin Whitespace /\ t[Len(t)] \notin Whitespace)
    /\ \E a \in 0..Len(s) :
          /\ a + Len(t) <= Len(s)
          /\ \A i \in 1..Len(s) :
                IF i > a /\ i <= a + Len(t) THEN s[i] = t[i - a]
                ELSE s[i] \in Whitespace

Slices(s) == {SubSeq(s, a, b) : a \in 1..(Len(s) + 1), b \in 0..Len(s)}

PhonePresent(row) == COLS.phone \in DOMAIN row /\ NotNull(row[COLS.phone])

\* the trimmed phone of a first row, "" when there is no phone
TrimmedPhone(row) ==
    IF PhonePresent(row)
    THEN CHOOSE t \in Slices(Str(row[COLS.phone])) :
            IsTrimOf(t, Str(row[COLS.phone]))
    ELSE <<>>

\* the text the claim takes the password from
PasswordSource(row, cust) ==
    IF Len(TrimmedPhone(row)) >= 4 THEN TrimmedPhone(row) ELSE cust

\* C5 as stated: the password is exactly 4 characters long, the last 4 of
\* the trimmed phone when that has at least 4 characters and otherwise the
\* last 4 of the customer identifier.
C5_PasswordExactlyFour ==
    pc = "password_output" =>
        /\ Len(pwd) = 4
        /\ IsSuffix(pwd, PasswordSource(first, cust_id))

\* C5 amended: the password is the last 4 characters of the trimmed phone
\* when that has at least 4 characters and otherwise the last 4 characters
\* of the customer identifier, or the whole identifier when it is shorter
\* than 4; so it is 4 characters long exactly when its source has at least
\* 4.  Phone "1234567890" gives "7890"; no phone with customer "CUST0099"
\* gives "0099".
C5_PasswordLastFour ==
    pc = "password_output" =>
        LET src == PasswordSource(first, cust_id)
        IN  /\ IsSuffix(pwd, src)
            /\ Len(pwd) = (IF Len(src) >= 4 THEN 4 ELSE Len(src))
            /\ (PhonePresent(first) /\ Str(first[COLS.phone]) = Phone1234567890)
                  => pwd = <<"7", "8", "9", "0">>
            /\ (TrimmedPhone(first) = <<>> /\ cust_id = CUST0099)
                  => pwd = <<"0", "0", "9", "9">>

\* C5 witness: a phone with surrounding whitespace and at least 4 characters
\* once trimmed has given the password
C5_Witness ==
    /\ pc = "password_output"
    /\ PhonePresent(first)
    /\ Len(TrimmedPhone(first)) >= 4
    /\ Len(TrimmedPhone(first)) < Len(Str(first[COLS.phone]))
    /\ IsSuffix(pwd, TrimmedPhone(first))
    /\ Len(pwd) = 4

====
